---- MODULE Spec2Model ----
(***************************************************************************)
(* vrc_doorkeeper: the rotation-aware log reader (src/reader.rs), the      *)
(* notifier that turns parsed log lines into XSOverlay notifications       *)
(* (src/main.rs) and the notification client (src/xsoverlay.rs).           *)
(*                                                                         *)
(* Option<T> is a sequence of length 0 (None) or 1 (Some).                 *)
(***************************************************************************)
EXTENDS Naturals, Sequences, FiniteSets, TLC

VARIABLES
    notifiable_since,   \* VrcToXsOverlayNotifier.notifiable_since : Option<DateTime>
    clock,              \* the reading of the CurrentTimeProvider, in seconds
    lastCall,           \* observation: the last process_line call and what it did
    roomAt,             \* observation: clock reading of the last room transition taken
    selfName,           \* observation: most recently seen UserAuthenticated name
    feed,               \* observation: progress of the end-to-end feed (see FeedNext)
    files,              \* the log directory: path -> [exists, kind, mtime, data]
    dirOrder,           \* the order in which fs::read_dir yields the log files
    reader,             \* VrChatLogProcessor.reader : Option<ContinuousFileReader>
    delivered,          \* observation: every callback argument so far, in order
    wholeOnly,          \* observation: every write so far ended with a line terminator
    fresh,              \* observation: a read returned Ok and nothing was written since
    lastRead,           \* observation: the last read_appended_lines call
    lastCycle,          \* observation: the process_log call that has just returned
    firstPath,          \* observation: the first path process_log ever selected
    firstDone,          \* observation: a batch has been read from firstPath
    deliveries,         \* a consumer's tally: path -> process_line calls for each line
    input,              \* the line LogLine::from_line is given, in its parts
    parsed              \* observation: what from_line or parse_body made of input

nvars == <<notifiable_since, clock, lastCall, roomAt, selfName, feed>>
fvars == <<files, dirOrder>>
rvars == <<reader, delivered, wholeOnly, fresh, lastRead>>
lvars == <<lastCycle, firstPath, firstDone, deliveries>>
pvars == <<input, parsed>>
vars == <<nvars, fvars, rvars, lvars, pvars>>

None == <<>>
Some(x) == <<x>>

-----------------------------------------------------------------------------
(* Bounds of the model. *)

\* clock readings are 0..MaxClock
MaxClock == 6

\* number of text chunks a file of the reader's run holds
MaxData == 4
\* number of text chunks of one write to the file
MaxWrite == 2
\* read_line calls that succeed before one that fails
MaxReads == 1
\* number of lines written to the log directory, all files together
MaxLines == 2

-----------------------------------------------------------------------------
(* src/vrc.rs: enum Event *)

Users == {"Alice", "Bob"}

Event(kind, user_name) == [kind |-> kind, user_name |-> user_name]

OnJoinedRoom == Event("OnJoinedRoom", "")
OnLeftRoom == Event("OnLeftRoom", "")
OnPlayerJoined(u) == Event("OnPlayerJoined", u)
OnPlayerLeft(u) == Event("OnPlayerLeft", u)
UserAuthenticated(u) == Event("UserAuthenticated", u)

Events ==
    {OnJoinedRoom, OnLeftRoom}
        \cup {OnPlayerJoined(u) : u \in Users}
        \cup {OnPlayerLeft(u) : u \in Users}
        \cup {UserAuthenticated(u) : u \in Users}

(* src/vrc/log.rs: enum LogLevel, struct LogLine *)
LogLevels == {"Debug", "Log", "Warning", "Error"}

LogLine(time, level, event, body) ==
    [time |-> time, log_level |-> level, event |-> event, body |-> body]

\* the lines fed to the notifier
FedLevels == {"Log"}
LogLines ==
    {LogLine([local |-> "2021.12.01 23:23:12", fold |-> 0], l, e, <<>>) :
        l \in FedLevels, e \in {None} \cup {Some(ev) : ev \in Events}}

-----------------------------------------------------------------------------
(* src/xsoverlay.rs: NotificationClient::send_message.  The outcome of the  *)
(* JSON encoding and of the UDP send is the environment's.                  *)

SendResults == {"Ok", "JsonError", "SendError"}

\* one send_message call: the message's title and what the call returned
send_message(title, result) == [title |-> title, result |-> result]

-----------------------------------------------------------------------------
(* src/main.rs: VrcToXsOverlayNotifier *)

\* Duration::seconds(5) in process_line
GracePeriod == 5

\* to_notification_object that gives every event with a user_name a title
to_notification_object_AnyUser(ns, now, line) ==
    IF ns # None /\ now < ns[1] THEN None
    ELSE IF line.event = None THEN None
    ELSE IF line.event[1].kind = "OnPlayerLeft" THEN Some(line.event[1].user_name \o " left.")
    ELSE IF line.event[1].user_name # "" THEN Some(line.event[1].user_name \o " joined.")
    ELSE None

\* to_notification_object that passes over lines of level Debug
to_notification_object_NoDebug(ns, now, line) ==
    IF ns # None /\ now < ns[1] THEN None
    ELSE IF line.event = None \/ line.log_level = "Debug" THEN None
    ELSE IF line.event[1].kind = "OnPlayerJoined" THEN Some(line.event[1].user_name \o " joined.")
    ELSE IF line.event[1].kind = "OnPlayerLeft" THEN Some(line.event[1].user_name \o " left.")
    ELSE None

\* the title of the MessageObject, or None
to_notification_object_LE(ns, now, line) ==
    IF ns # None /\ now <= ns[1] THEN None
    ELSE IF line.event = None THEN None
    ELSE IF line.event[1].kind = "OnPlayerJoined" THEN Some(line.event[1].user_name \o " joined.")
    ELSE IF line.event[1].kind = "OnPlayerLeft" THEN Some(line.event[1].user_name \o " left.")
    ELSE None

to_notification_object(ns, now, line) ==
    IF ns # None /\ now < ns[1] THEN None
    ELSE IF line.event = None THEN None
    ELSE IF line.event[1].kind = "OnPlayerJoined" THEN Some(line.event[1].user_name \o " joined.")
    ELSE IF line.event[1].kind = "OnPlayerLeft" THEN Some(line.event[1].user_name \o " left.")
    ELSE None

IsRoomTransition(line) ==
    line.event # None /\ line.event[1].kind \in {"OnJoinedRoom", "OnLeftRoom"}

IsPlayerEvent(line) ==
    line.event # None /\ line.event[1].kind \in {"OnPlayerJoined", "OnPlayerLeft"}

\* process_line without the is_first early return
process_line_NoFirstCheck(ns, now, line, is_first, result) ==
    LET ns1 == IF IsRoomTransition(line) THEN Some(now + GracePeriod) ELSE ns
        message == to_notification_object(ns1, now, line)
    IN  [notifiable_since |-> ns1,
         sends |-> IF message # None THEN <<send_message(message[1], result)>> ELSE <<>>]

\* process_line that never stores notifiable_since
process_line_NoWindow(ns, now, line, is_first, result) ==
    IF is_first THEN [notifiable_since |-> ns, sends |-> <<>>]
    ELSE
        LET message == to_notification_object(ns, now, line)
        IN  [notifiable_since |-> ns,
             sends |-> IF message # None THEN <<send_message(message[1], result)>> ELSE <<>>]

\* process_line that lets a window that is still open run on
process_line_KeepWindow(ns, now, line, is_first, result) ==
    IF is_first THEN [notifiable_since |-> ns, sends |-> <<>>]
    ELSE
        LET ns1 == IF IsRoomTransition(line) /\ (ns = None \/ ns[1] <= now)
                   THEN Some(now + GracePeriod) ELSE ns
            message == to_notification_object(ns1, now, line)
        IN  [notifiable_since |-> ns1,
             sends |-> IF message # None THEN <<send_message(message[1], result)>> ELSE <<>>]

\* one process_line call: the new notifiable_since and the send_message calls made
process_line(ns, now, line, is_first, result) ==
    IF is_first THEN [notifiable_since |-> ns, sends |-> <<>>]
    ELSE
        LET ns1 == IF IsRoomTransition(line) THEN Some(now + GracePeriod) ELSE ns
            message == to_notification_object(ns1, now, line)
        IN  [notifiable_since |-> ns1,
             sends |-> IF message # None THEN <<send_message(message[1], result)>> ELSE <<>>]

Titles(sends) == [i \in 1..Len(sends) |-> sends[i].title]

-----------------------------------------------------------------------------
(* Files.  A file's data is a sequence of text chunks; a chunk is a        *)
(* character or a longer piece of text and has a length in bytes.          *)

LF == "\n"
\* char::is_whitespace, which str::trim_end strips
Whitespace == {" ", LF, "\r", "\t"}

\* the chunks log lines are made of
TS == "2021.12.01 23:23:12"
\* no such month
TS_INVALID == "2021.13.01 23:23:12"
\* a local time that occurs twice (the clock is set back over it)
TS_FOLD == "2021.11.07 01:30:00"
\* a local time that does not occur (the clock is set forward over it)
TS_GAP == "2021.03.14 02:30:00"
SP == " "
DASH == "-  "
B_JOINED_ROOM == "[Behaviour] Finished entering world"
B_PLAYER_JOINED == "[Behaviour] OnPlayerJoined "
B_LEFT_ROOM == "[Behaviour] OnLeftRoom"
B_PLAYER_LEFT == "[Behaviour] OnPlayerLeft "
B_AUTHENTICATED == "[Behaviour] User Authenticated: "
USR == " (usr_a58186d2)"

\* the length of a chunk in bytes; "U+00E9" is one character of two bytes
Width(c) ==
    CASE c = "U+00E9" -> 2
      [] c \in {TS, TS_INVALID, TS_FOLD, TS_GAP} -> 19
      [] c = DASH -> 3
      [] c = B_JOINED_ROOM -> 35
      [] c = B_PLAYER_JOINED -> 27
      [] c = B_LEFT_ROOM -> 22
      [] c = B_PLAYER_LEFT -> 25
      [] c = B_AUTHENTICATED -> 32
      [] c = USR -> 15
      [] c \in {"Alice", "Debug", "Error"} -> 5
      [] c \in {"Bob", "Log"} -> 3
      [] c = "Warning" -> 7
      [] OTHER -> 1

RECURSIVE ByteLen(_)
ByteLen(text) == IF text = <<>> THEN 0 ELSE Width(Head(text)) + ByteLen(Tail(text))

\* f.seek(SeekFrom::Start(offset)): what is left to read of data
RECURSIVE Seek(_, _)
Seek(data, offset) ==
    IF data = <<>> \/ offset = 0 THEN data
    ELSE IF Width(Head(data)) <= offset THEN Seek(Tail(data), offset - Width(Head(data)))
    ELSE Tail(data)

\* BufRead::read_line: the text up to and including the first line feed, or all
\* that is left when there is none
RECURSIVE read_line(_)
read_line(rest) ==
    IF rest = <<>> THEN <<>>
    ELSE IF Head(rest) = LF THEN <<LF>>
    ELSE <<Head(rest)>> \o read_line(Tail(rest))

\* str::trim_end
RECURSIVE trim_end(_)
trim_end(text) ==
    IF text = <<>> THEN <<>>
    ELSE IF text[Len(text)] \in Whitespace THEN trim_end(SubSeq(text, 1, Len(text) - 1))
    ELSE text

-----------------------------------------------------------------------------
(* src/vrc/log.rs: LogLine::from_line and parse_body.  The patterns are     *)
(* matched chunk by chunk; none is anchored, so a match may start at any    *)
(* chunk of the text.                                                       *)

RECURSIVE Concat(_)
Concat(text) == IF text = <<>> THEN "" ELSE Head(text) \o Concat(Tail(text))

Least(S) == CHOOSE n \in S : \A m \in S : n <= m

\* chunks matching \d{4}.\d{2}.\d{2} \d{2}:\d{2}:\d{2}
TimestampShaped == {TS, TS_INVALID, TS_FOLD, TS_GAP}

\* NaiveDateTime::parse_from_str(timestamp, "%Y.%m.%d %H:%M:%S").ok()
parse_from_str(timestamp) == IF timestamp = TS_INVALID THEN None ELSE Some(timestamp)

\* Local.from_local_datetime: the instants a local time stands for, earliest first
from_local_datetime(naive) ==
    CASE naive = TS_GAP -> <<>>
      [] naive = TS_FOLD -> <<[local |-> naive, fold |-> 0], [local |-> naive, fold |-> 1]>>
      [] OTHER -> <<[local |-> naive, fold |-> 0]>>

\* LocalResult::latest in the place of earliest
earliest_Latest(instants) == IF instants = <<>> THEN None ELSE Some(instants[Len(instants)])

\* LocalResult::earliest
earliest(instants) == IF instants = <<>> THEN None ELSE Some(instants[1])
\* chunks without a space in them
Words == LogLevels \cup Users \cup {"Exception", "a", "U+00E9"}
\* chunks matching " \(usr_[a-z0-9-]+\)"
UsrSuffixes == {USR}

\* the position of the "-  " that ends a header starting at i, or 0
HeaderDash(text, i) ==
    IF  /\ i + 3 <= Len(text)
        /\ text[i] \in TimestampShaped
        /\ text[i + 1] = SP
        /\ text[i + 2] \in Words
        /\ \E j \in (i + 3)..Len(text) :
              text[j] = DASH /\ \A k \in (i + 3)..(j - 1) : text[k] = SP
    THEN Least({j \in (i + 3)..Len(text) : text[j] = DASH})
    ELSE 0

\* ON_PLAYER_JOINED_PATTERN / ON_PLAYER_LEFT_PATTERN: the username capture of the
\* leftmost match, or None
PlayerCapture(body, prefix) ==
    LET starts == {i \in 1..Len(body) : body[i] = prefix /\ i < Len(body)}
    IN  IF starts = {} THEN None
        ELSE
            LET i == Least(starts)
                j == Least({k \in (i + 1)..Len(body) :
                                k = Len(body) \/ body[k + 1] \in UsrSuffixes})
            IN  Some(Concat(SubSeq(body, i + 1, j)))

\* USER_AUTHENTICATED_PATTERN: the \S+ capture of the leftmost match, or None
AuthenticatedCapture(body) ==
    LET starts == {i \in 1..Len(body) :
                        body[i] = B_AUTHENTICATED /\ i < Len(body) /\ body[i + 1] \in Words}
    IN  IF starts = {} THEN None
        ELSE
            LET i == Least(starts)
                j == Least({k \in (i + 1)..Len(body) :
                                k = Len(body) \/ body[k + 1] \notin Words})
            IN  Some(Concat(SubSeq(body, i + 1, j)))

\* LogLine::parse_body
parse_body(body) ==
    LET joined == PlayerCapture(body, B_PLAYER_JOINED)
        left == PlayerCapture(body, B_PLAYER_LEFT)
        authenticated == AuthenticatedCapture(body)
    IN  IF \E i \in 1..Len(body) : body[i] = B_JOINED_ROOM THEN Some(OnJoinedRoom)
        ELSE IF joined # None THEN Some(OnPlayerJoined(joined[1]))
        ELSE IF \E i \in 1..Len(body) : body[i] = B_LEFT_ROOM THEN Some(OnLeftRoom)
        ELSE IF left # None THEN Some(OnPlayerLeft(left[1]))
        ELSE IF authenticated # None THEN Some(UserAuthenticated(authenticated[1]))
        ELSE None

\* from_line that takes a level it does not know for Log
from_line_AnyLevel(text) ==
    LET starts == {i \in 1..Len(text) : HeaderDash(text, i) # 0}
    IN  IF starts = {} THEN None
        ELSE
            LET i == Least(starts)
                dash == HeaderDash(text, i)
                level == IF text[i + 2] \in LogLevels THEN text[i + 2] ELSE "Log"
                body == SubSeq(text, dash + 1, Len(text))
                timestamp == parse_from_str(text[i])
            IN  IF timestamp = None THEN None
                ELSE IF earliest(from_local_datetime(timestamp[1])) = None THEN None
                ELSE Some(LogLine(earliest(from_local_datetime(timestamp[1]))[1], level,
                                  parse_body(body), body))

\* LogLine::from_line: Option<LogLine>
from_line(text) ==
    LET starts == {i \in 1..Len(text) : HeaderDash(text, i) # 0}
    IN  IF starts = {} THEN None
        ELSE
            LET i == Least(starts)
                dash == HeaderDash(text, i)
                level == text[i + 2]
                body == SubSeq(text, dash + 1, Len(text))
                timestamp == parse_from_str(text[i])
            IN  IF timestamp = None THEN None
                ELSE IF earliest(from_local_datetime(timestamp[1])) = None THEN None
                ELSE IF level \notin LogLevels THEN None
                ELSE Some(LogLine(earliest(from_local_datetime(timestamp[1]))[1], level,
                                  parse_body(body), body))

-----------------------------------------------------------------------------
(* src/reader.rs: ContinuousFileReader *)

ContinuousFileReader(file_path, read_bytes) ==
    [file_path |-> file_path, read_bytes |-> read_bytes]

\* ContinuousFileReader::new
NewReader(file_path) == ContinuousFileReader(file_path, 0)

\* what the file system does to one read_appended_lines call
IoOutcomes ==
    {[kind |-> k, after |-> 0] : k \in {"Ok", "OpenErr", "SeekErr"}}
        \cup {[kind |-> "ReadErr", after |-> n] : n \in 0..MaxReads}

\* the loop of read_appended_lines that counts characters, not bytes
RECURSIVE ReadLoop_Chars(_, _, _, _)
ReadLoop_Chars(rest, read_bytes, callbacks, io) ==
    IF io.kind = "ReadErr" /\ Len(callbacks) = io.after
    THEN [result |-> "Err", read_bytes |-> read_bytes, callbacks |-> callbacks]
    ELSE
        LET buf == read_line(rest)
        IN  IF Len(buf) = 0
            THEN [result |-> "Ok", read_bytes |-> read_bytes, callbacks |-> callbacks]
            ELSE ReadLoop_Chars(SubSeq(rest, Len(buf) + 1, Len(rest)), read_bytes + Len(buf),
                                Append(callbacks, trim_end(buf)), io)

\* the loop of read_appended_lines that does not store the new offset
RECURSIVE ReadLoop_NoAdvance(_, _, _, _)
ReadLoop_NoAdvance(rest, read_bytes, callbacks, io) ==
    IF io.kind = "ReadErr" /\ Len(callbacks) = io.after
    THEN [result |-> "Err", read_bytes |-> read_bytes, callbacks |-> callbacks]
    ELSE
        LET buf == read_line(rest)
        IN  IF ByteLen(buf) = 0
            THEN [result |-> "Ok", read_bytes |-> read_bytes, callbacks |-> callbacks]
            ELSE ReadLoop_NoAdvance(SubSeq(rest, Len(buf) + 1, Len(rest)), read_bytes,
                                    Append(callbacks, trim_end(buf)), io)

\* the loop of read_appended_lines: rest is what the BufReader has left to read,
\* callbacks the arguments of the callback calls made so far
RECURSIVE ReadLoop(_, _, _, _)
ReadLoop(rest, read_bytes, callbacks, io) ==
    IF io.kind = "ReadErr" /\ Len(callbacks) = io.after
    THEN [result |-> "Err", read_bytes |-> read_bytes, callbacks |-> callbacks]
    ELSE
        LET buf == read_line(rest)
            len == ByteLen(buf)
        IN  IF len = 0
            THEN [result |-> "Ok", read_bytes |-> read_bytes, callbacks |-> callbacks]
            ELSE ReadLoop(SubSeq(rest, Len(buf) + 1, Len(rest)), read_bytes + len,
                          Append(callbacks, trim_end(buf)), io)

\* read_appended_lines that goes on to read from the start of the file when the
\* seek fails
read_appended_lines_IgnoreSeek(data, read_bytes, io) ==
    IF io.kind = "OpenErr"
    THEN [result |-> "Err", read_bytes |-> read_bytes, callbacks |-> <<>>]
    ELSE ReadLoop(IF io.kind = "SeekErr" THEN data ELSE Seek(data, read_bytes),
                  read_bytes, <<>>, io)

\* ContinuousFileReader::read_appended_lines on a file holding data: the result,
\* the new read_bytes and the callback arguments in call order
read_appended_lines(data, read_bytes, io) ==
    IF io.kind \in {"OpenErr", "SeekErr"}
    THEN [result |-> "Err", read_bytes |-> read_bytes, callbacks |-> <<>>]
    ELSE ReadLoop(Seek(data, read_bytes), read_bytes, <<>>, io)

-----------------------------------------------------------------------------
(* The log directory *)

LogPaths == {"output_log_1.txt", "output_log_2.txt"}
\* a directory whose name has the shape of a log file's, and another program's file
AllPaths == LogPaths \cup {"output_log_archive.txt", "Player.log"}

File(exists, kind, mtime, data) ==
    [exists |-> exists, kind |-> kind, mtime |-> mtime, data |-> data]

NoFile == File(FALSE, "file", 0, <<>>)
\* a log file that was removed; its name is not used again
GoneFile == File(FALSE, "gone", 0, <<>>)

\* the directory before any log file is written; the two other entries were
\* modified later than any log file will be
EmptyDir ==
    [p \in AllPaths |->
        CASE p = "output_log_archive.txt" -> File(TRUE, "dir", Cardinality(LogPaths), <<>>)
          [] p = "Player.log" -> File(TRUE, "file", Cardinality(LogPaths), <<>>)
          [] OTHER -> NoFile]

\* from: read_bytes before the call; again: the call follows another with nothing
\* written in between; fresh: it follows one that returned Ok likewise
NoRead ==
    [called |-> FALSE, from |-> 0, again |-> FALSE, fresh |-> FALSE, callbacks |-> <<>>,
     result |-> "Ok", io |-> "Ok"]

ReaderObsInit ==
    /\ delivered = <<>>
    /\ wholeOnly = TRUE
    /\ fresh = FALSE
    /\ lastRead = NoRead

\* before: the reader before the call; selected: the path find_latest_log_path
\* gave; from: read_bytes when the file was opened; events: the event of every
\* line given to process_line; sends: the send_message calls
NoCycle ==
    [called |-> FALSE, result |-> "Ok", before |-> None, selected |-> None,
     is_first |-> FALSE, from |-> 0, ncallbacks |-> 0, events |-> <<>>, sends |-> <<>>,
     nsBefore |-> None, firstBatch |-> FALSE]

LogObsInit ==
    /\ lastCycle = NoCycle
    /\ firstPath = None
    /\ firstDone = FALSE
    /\ deliveries = [p \in LogPaths |-> <<>>]

\* a line in its parts: the header (or none), the chunk the body starts with,
\* the text that follows it and whether " (usr_<id>)" ends the line
Line(head, start, name, usr) == [head |-> head, start |-> start, name |-> name, usr |-> usr]

NoLine == Line(<<>>, "a", <<>>, FALSE)

\* called: "from_line", "parse_body" or "no"
NotParsed == [called |-> "no", log_line |-> None, event |-> None]

ParserObsInit ==
    /\ input = NoLine
    /\ parsed = NotParsed

-----------------------------------------------------------------------------
(* The notifier driven line by line, as by a test with an injected         *)
(* CurrentTimeProvider: VrcToXsOverlayNotifier::new, then process_line      *)
(* calls with any line, any is_first and any clock reading.                 *)

\* the end-to-end feed: UserAuthenticated Alice, OnJoinedRoom, OnPlayerJoined
\* Alice at one clock reading, then OnPlayerJoined Bob GracePeriod + 1 later
FeedEvent(i) ==
    CASE i = 1 -> UserAuthenticated("Alice")
      [] i = 2 -> OnJoinedRoom
      [] i = 3 -> OnPlayerJoined("Alice")
      [] OTHER -> OnPlayerJoined("Bob")

FeedLen == Cardinality({UserAuthenticated("Alice"), OnJoinedRoom, OnPlayerJoined("Alice"), OnPlayerJoined("Bob")})

\* f.on: every call since VrcToXsOverlayNotifier::new was the feed's next line at
\* the feed's clock reading; f.sent: the titles of all send_message calls so far
FeedNext(f, now, line, is_first, sends) ==
    IF  /\ f.on
        /\ f.step < FeedLen
        /\ ~is_first
        /\ line.event = Some(FeedEvent(f.step + 1))
        /\ \/ f.step = 0
           \/ f.step + 1 < FeedLen /\ now = f.t0
           \/ f.step + 1 = FeedLen /\ now = f.t0 + GracePeriod + 1
    THEN [on |-> TRUE, step |-> f.step + 1, t0 |-> IF f.step = 0 THEN now ELSE f.t0,
          sent |-> f.sent \o Titles(sends)]
    ELSE [on |-> FALSE, step |-> 0, t0 |-> 0, sent |-> <<>>]

NoCall == [called |-> FALSE, line |-> LogLine([local |-> "2021.12.01 23:23:12", fold |-> 0], "Log", None, <<>>), is_first |-> FALSE,
           now |-> 0, before |-> None, sends |-> <<>>]

\* VrcToXsOverlayNotifier::new
NotifierNew ==
    /\ notifiable_since = None
    /\ clock = 0
    /\ lastCall = NoCall
    /\ roomAt = None
    /\ selfName = None
    /\ feed = [on |-> TRUE, step |-> 0, t0 |-> 0, sent |-> <<>>]

\* the effect of one process_line call on the notifier and on the observations
Notify(now, line, is_first, result) ==
    LET r == process_line(notifiable_since, now, line, is_first, result)
    IN  /\ notifiable_since' = r.notifiable_since
        /\ clock' = now
        /\ lastCall' = [called |-> TRUE, line |-> line, is_first |-> is_first,
                        now |-> now, before |-> notifiable_since, sends |-> r.sends]
        /\ roomAt' = IF IsRoomTransition(line) /\ ~is_first THEN Some(now) ELSE roomAt
        /\ selfName' = IF line.event # None /\ line.event[1].kind = "UserAuthenticated"
                       THEN Some(line.event[1].user_name) ELSE selfName
        /\ feed' = FeedNext(feed, now, line, is_first, r.sends)
        /\ UNCHANGED <<fvars, rvars, lvars, pvars>>

\* the notifier alone: no log directory, no reader
NotifierInit ==
    /\ NotifierNew
    /\ files = EmptyDir
    /\ dirOrder = <<>>
    /\ reader = None
    /\ ReaderObsInit
    /\ LogObsInit
    /\ ParserObsInit

ProcessLineCall ==
    \E now \in 0..MaxClock, line \in LogLines, is_first \in BOOLEAN, result \in SendResults :
        Notify(now, line, is_first, result)

NotifierNext == ProcessLineCall

SpecNotifier == NotifierInit /\ [][NotifierNext]_vars

-----------------------------------------------------------------------------
(* One ContinuousFileReader on one file that a writer appends to:          *)
(* ContinuousFileReader::new, then writes and read_appended_lines calls in  *)
(* any order.                                                               *)

TrackedPath == "output_log_1.txt"

ReaderChunks == {"a", "U+00E9", " ", LF}

\* one write appends 1..MaxWrite chunks
Writes == UNION {[1..n -> ReaderChunks] : n \in 1..MaxWrite}

ReaderInit ==
    /\ NotifierNew
    /\ files = [EmptyDir EXCEPT ![TrackedPath] = File(TRUE, "file", 0, <<>>)]
    /\ dirOrder = <<TrackedPath>>
    /\ reader = Some(NewReader(TrackedPath))
    /\ ReaderObsInit
    /\ LogObsInit
    /\ ParserObsInit

\* the writer appends w to the tracked file
WriteChunks(w) ==
    /\ Len(files[TrackedPath].data) + Len(w) <= MaxData
    /\ files' = [files EXCEPT ![TrackedPath].data = @ \o w]
    /\ wholeOnly' = (wholeOnly /\ w[Len(w)] = LF)
    /\ fresh' = FALSE
    /\ lastRead' = NoRead
    /\ UNCHANGED <<nvars, lvars, pvars, dirOrder, reader, delivered>>

WriteCall == \E w \in Writes : WriteChunks(w)

\* one read_appended_lines call
ReadWith(io) ==
    LET r == read_appended_lines(files[reader[1].file_path].data, reader[1].read_bytes, io)
    IN  /\ reader' = Some(ContinuousFileReader(reader[1].file_path, r.read_bytes))
        /\ delivered' = delivered \o r.callbacks
        /\ lastRead' = [called |-> TRUE, from |-> reader[1].read_bytes,
                        again |-> lastRead.called, fresh |-> fresh,
                        callbacks |-> r.callbacks, result |-> r.result, io |-> io.kind]
        /\ fresh' = (r.result = "Ok" \/ fresh)
        /\ UNCHANGED <<nvars, fvars, lvars, pvars, wholeOnly>>

ReadCall == \E io \in IoOutcomes : ReadWith(io)

ReaderNext == WriteCall \/ ReadCall

SpecReader == ReaderInit /\ [][ReaderNext]_vars

-----------------------------------------------------------------------------
(* LogLine::from_line and parse_body alone, on one line *)

\* number of chunks of the text that follows the chunk a body starts with
MaxName == 3

\* the chunks that text is made of; USR makes a name that itself holds an identifier
NameChunks == {"Bob", SP, USR}
NameTexts == UNION {[1..k -> NameChunks] : k \in 0..MaxName}

\* what stands where the header pattern wants the level
LevelTokens == LogLevels \cup {"Exception"}

\* no header, or a timestamp, a level token and the dash, one or more spaces apart
Headers ==
    {<<>>} \cup {<<ts, SP, level>> \o pad \o <<DASH>> :
                    ts \in TimestampShaped, level \in LevelTokens, pad \in {<<>>, <<SP>>}}

\* the chunks a body starts with: what the five patterns begin with, and a word
BodyStarts ==
    {B_JOINED_ROOM, B_PLAYER_JOINED, B_LEFT_ROOM, B_PLAYER_LEFT, B_AUTHENTICATED, "a"}

Lines == {Line(head, start, name, usr) :
            head \in Headers, start \in BodyStarts, name \in NameTexts, usr \in BOOLEAN}

BodyOf(l) == <<l.start>> \o l.name \o (IF l.usr THEN <<USR>> ELSE <<>>)
TextOf(l) == l.head \o BodyOf(l)

ParserInit ==
    /\ NotifierNew
    /\ files = EmptyDir
    /\ dirOrder = <<>>
    /\ reader = None
    /\ ReaderObsInit
    /\ LogObsInit
    /\ input \in Lines
    /\ parsed = NotParsed

\* LogLine::from_line(line) on the whole line
FromLineCall ==
    /\ parsed.called = "no"
    /\ parsed' = [called |-> "from_line", log_line |-> from_line(TextOf(input)),
                  event |-> None]
    /\ UNCHANGED <<nvars, fvars, rvars, lvars, input>>

\* LogLine::parse_body(body) on the body of the line
ParseBodyCall ==
    /\ parsed.called = "no"
    /\ parsed' = [called |-> "parse_body", log_line |-> None,
                  event |-> parse_body(BodyOf(input))]
    /\ UNCHANGED <<nvars, fvars, rvars, lvars, input>>

ParserNext == FromLineCall \/ ParseBodyCall

SpecParser == ParserInit /\ [][ParserNext]_vars

-----------------------------------------------------------------------------
(* src/vrc/log.rs: get_log_entries; src/reader.rs: find_latest_log_path and *)
(* VrChatLogProcessor::process_log                                          *)

\* LOG_FILE_NAME_PATTERN.is_match(name), ^output_log_.*\.txt$
IsLogFileName(name) == name \in LogPaths \cup {"output_log_archive.txt"}

\* fs::read_dir: the two standing entries, then the log files
read_dir(order) == <<"Player.log", "output_log_archive.txt">> \o order

\* get_log_entries that does not look at the file type
get_log_entries_AnyType(fs, order) ==
    SelectSeq(read_dir(order), LAMBDA p : fs[p].exists /\ IsLogFileName(p))

\* get_log_entries: the entries that are regular files named like a log file
get_log_entries(fs, order) ==
    SelectSeq(read_dir(order),
              LAMBDA p : fs[p].exists /\ fs[p].kind = "file" /\ IsLogFileName(p))

\* find_latest_log_path that, of the entries modified last, prefers one the
\* reader is not reading
find_latest_log_path_Alternate(fs, log_entries) ==
    IF log_entries = <<>> THEN None
    ELSE
        LET latest == {i \in 1..Len(log_entries) :
                          \A j \in 1..Len(log_entries) :
                              fs[log_entries[j]].mtime <= fs[log_entries[i]].mtime}
            others == {i \in latest : reader = None \/ log_entries[i] # reader[1].file_path}
            among == IF others = {} THEN latest ELSE others
        IN  Some(log_entries[CHOOSE i \in among : \A j \in among : j <= i])

\* find_latest_log_path that returns the last entry of the listing
find_latest_log_path_LastListed(fs, log_entries) ==
    IF log_entries = <<>> THEN None
    ELSE Some(log_entries[Len(log_entries)])

\* find_latest_log_path: Iterator::max_by returns the last of the greatest elements
find_latest_log_path(fs, log_entries) ==
    IF log_entries = <<>> THEN None
    ELSE
        LET latest == {i \in 1..Len(log_entries) :
                          \A j \in 1..Len(log_entries) :
                              fs[log_entries[j]].mtime <= fs[log_entries[i]].mtime}
        IN  Some(log_entries[CHOOSE i \in latest : \A j \in latest : j <= i])

\* the reader choice of process_log that also flags a changed file as first
SelectReader_FirstOnChange(current, latest_log_path) ==
    IF current # None /\ current[1].file_path = latest_log_path
    THEN [reader |-> current, is_first |-> FALSE]
    ELSE [reader |-> Some(NewReader(latest_log_path)), is_first |-> TRUE]

\* process_log, lines 69-86: the reader to read with, and is_first
SelectReader(current, latest_log_path) ==
    IF current # None
    THEN IF current[1].file_path # latest_log_path
         THEN [reader |-> Some(NewReader(latest_log_path)), is_first |-> FALSE]
         ELSE [reader |-> current, is_first |-> FALSE]
    ELSE [reader |-> Some(NewReader(latest_log_path)), is_first |-> TRUE]

\* LogLine::from_line(line) of every line the callback of process_log is called with
RECURSIVE ParseLines(_)
ParseLines(callbacks) ==
    IF callbacks = <<>> THEN <<>>
    ELSE <<from_line(Head(callbacks))>> \o ParseLines(Tail(callbacks))

\* the sends of one process_line call, each with the number of its line
Numbered(sends, n) ==
    [k \in 1..Len(sends) |-> [title |-> sends[k].title, result |-> sends[k].result, line |-> n]]

\* the callback of process_log that gives up the batch when a send fails
RECURSIVE DeliverLines_StopOnError(_, _, _, _, _, _)
DeliverLines_StopOnError(log_lines, i, acc, now, is_first, results) ==
    IF i > Len(log_lines) \/ (\E k \in 1..Len(acc.sends) : acc.sends[k].result # "Ok") THEN acc
    ELSE
        LET log_line == log_lines[i]
        IN  IF log_line = None
            THEN DeliverLines_StopOnError(log_lines, i + 1, acc, now, is_first, results)
            ELSE
                LET r == process_line(acc.notifiable_since, now, log_line[1], is_first,
                                      results[Len(acc.sends) + 1])
                IN  DeliverLines_StopOnError(log_lines, i + 1,
                        [notifiable_since |-> r.notifiable_since,
                         events |-> Append(acc.events, log_line[1].event),
                         sends |-> acc.sends \o Numbered(r.sends, Len(acc.events) + 1)],
                        now, is_first, results)

\* the callback of process_log, lines 88-92, over the lines read_appended_lines
\* hands it, log_lines being what LogLine::from_line makes of them: acc holds
\* notifiable_since, the events of the lines given to process_line and the
\* send_message calls made; results[k] is what the k-th send_message call of the
\* batch returns
RECURSIVE DeliverLines(_, _, _, _, _, _)
DeliverLines(log_lines, i, acc, now, is_first, results) ==
    IF i > Len(log_lines) THEN acc
    ELSE
        LET log_line == log_lines[i]
        IN  IF log_line = None
            THEN DeliverLines(log_lines, i + 1, acc, now, is_first, results)
            ELSE
                LET r == process_line(acc.notifiable_since, now, log_line[1], is_first,
                                      results[Len(acc.sends) + 1])
                IN  DeliverLines(log_lines, i + 1,
                        [notifiable_since |-> r.notifiable_since,
                         events |-> Append(acc.events, log_line[1].event),
                         sends |-> acc.sends \o Numbered(r.sends, Len(acc.events) + 1)],
                        now, is_first, results)

\* what the file system does to one process_log call
CycleOutcomes == IoOutcomes \cup {[kind |-> "ReadDirErr", after |-> 0]}

\* process_log returning Err before a file is selected: what it leaves behind,
\* and (log_lines) what LogLine::from_line made of the lines it read
CycleFails(result) ==
    [reader |-> reader, notifiable_since |-> notifiable_since,
     lastCycle |-> [NoCycle EXCEPT !.called = TRUE, !.result = result, !.before = reader,
                                   !.nsBefore = notifiable_since],
     firstPath |-> firstPath, firstDone |-> firstDone, log_lines |-> <<>>]

\* process_log once a file is selected and read: what it leaves behind
CycleDelivers(latest_log_path, sel, r, log_lines, results) ==
    LET monitor == sel.reader[1]
        d == DeliverLines(log_lines, 1,
                          [notifiable_since |-> notifiable_since, events |-> <<>>, sends |-> <<>>],
                          clock, sel.is_first, results)
        first == IF firstPath = None THEN latest_log_path ELSE firstPath[1]
        read == r.result = "Ok" \/ Len(r.callbacks) > 0
    IN  [reader |-> Some(ContinuousFileReader(monitor.file_path, r.read_bytes)),
         notifiable_since |-> d.notifiable_since,
         lastCycle |->
                [called |-> TRUE, result |-> r.result, before |-> reader,
                 selected |-> Some(latest_log_path), is_first |-> sel.is_first,
                 from |-> monitor.read_bytes, ncallbacks |-> Len(r.callbacks),
                 events |-> d.events, sends |-> d.sends, nsBefore |-> notifiable_since,
                 firstBatch |-> (~firstDone /\ latest_log_path = first /\ read)],
         firstPath |-> Some(first),
         firstDone |-> (firstDone \/ (latest_log_path = first /\ read)),
         log_lines |-> log_lines]

CycleReads(latest_log_path, io) ==
    LET sel == SelectReader(reader, latest_log_path)
        r == read_appended_lines(files[sel.reader[1].file_path].data, sel.reader[1].read_bytes, io)
        log_lines == ParseLines(r.callbacks)
        \* the lines of the batch that process_line notifies
        n == Len(DeliverLines(log_lines, 1,
                              [notifiable_since |-> notifiable_since, events |-> <<>>, sends |-> <<>>],
                              clock, sel.is_first, [k \in 1..Len(log_lines) |-> "Ok"]).sends)
    IN  {CycleDelivers(latest_log_path, sel, r, log_lines, results) :
            results \in [1..n -> SendResults]}

\* what process_log can leave behind when the file system does io to it
Cycle(io) ==
    IF io.kind = "ReadDirErr" THEN {CycleFails("ReadDirErr")}
    ELSE
        LET latest_log_path == find_latest_log_path(files, get_log_entries(files, dirOrder))
        IN  IF latest_log_path = None THEN {CycleFails("NotFound")}
            ELSE CycleReads(latest_log_path[1], io)

\* process_log returns, leaving t behind
Returns(t) ==
    /\ reader' = t.reader
    /\ notifiable_since' = t.notifiable_since
    /\ lastCycle' = t.lastCycle
    /\ firstPath' = t.firstPath
    /\ firstDone' = t.firstDone
    /\ UNCHANGED <<clock, lastCall, roomAt, selfName, feed, fvars, pvars,
                   delivered, wholeOnly, fresh, lastRead>>

\* VrChatLogProcessor::process_log; the consumer keeps no tally
process_log == \E io \in CycleOutcomes : \E t \in Cycle(io) : Returns(t) /\ UNCHANGED deliveries

\* the loop of main that stops at the first Err
main_continues_ExitOnErr(result) == result = "Ok"

\* the loop of main, lines 109-115: whether it goes on to the next cycle after a
\* process_log call that returned result
main_continues(result) == TRUE

\* one turn of the loop of main
main_loop == main_continues(lastCycle.result) /\ process_log

\* a turn of the loop of main in which no file system call fails: it writes
\* nothing to the directory and returns Ok or NotFound (the two conjuncts only
\* repeat what Cycle says of such a turn)
main_loop_ok ==
    /\ main_continues(lastCycle.result)
    /\ UNCHANGED fvars
    /\ lastCycle'.result \in {"Ok", "NotFound"}
    /\ \E t \in Cycle([kind |-> "Ok", after |-> 0]) : Returns(t) /\ UNCHANGED deliveries

\* a turn of the loop of main in which no file system call fails would change
\* nothing: the loop has stopped, or process_log leaves behind what it found
\* (which it can only do where the turn before it did so too)
main_loop_idle ==
    \/ ~main_continues(lastCycle.result)
    \/ /\ lastCycle.called /\ lastCycle.before = reader
       /\ Cycle([kind |-> "Ok", after |-> 0]) =
            {[reader |-> reader, notifiable_since |-> notifiable_since,
              lastCycle |-> lastCycle, firstPath |-> firstPath, firstDone |-> firstDone,
              log_lines |-> <<>>]}

-----------------------------------------------------------------------------
(* The log directory's writer *)

PlayerLine(u) == <<TS, SP, "Log", SP, DASH, B_PLAYER_JOINED, u, USR, LF>>
RoomLine == <<TS, SP, "Log", SP, DASH, B_JOINED_ROOM, LF>>

\* the lines the game writes
WrittenLines == {PlayerLine("Bob"), RoomLine}

ExistingLogs(fs) == {p \in LogPaths : fs[p].exists}

TotalLines(fs) ==
    LET n(p) == Cardinality({i \in 1..Len(fs[p].data) : fs[p].data[i] = LF})
    IN  n("output_log_1.txt") + n("output_log_2.txt")

\* modified times are kept as ranks among the existing log files
Ranked(fs) ==
    [p \in AllPaths |->
        IF p \in ExistingLogs(fs)
        THEN [fs[p] EXCEPT !.mtime =
                  Cardinality({fs[q].mtime : q \in {x \in ExistingLogs(fs) : fs[x].mtime < fs[p].mtime}})]
        ELSE fs[p]]

\* p is modified now: later than every other log file, or (tie) within the same
\* tick of the file system's clock as the latest of them
Touched(fs, p, tie) ==
    LET others == {fs[q].mtime : q \in ExistingLogs(fs) \ {p}}
        top == IF others = {} THEN 0 ELSE CHOOSE m \in others : \A n \in others : n <= m
    IN  Ranked([fs EXCEPT ![p].mtime = IF tie THEN top ELSE top + 1])

CanTie(fs, p) ==
    /\ ExistingLogs(fs) \ {p} # {}
    /\ \E q \in ExistingLogs(fs) \ {p} : fs[p].mtime <= fs[q].mtime

\* the game creates the log file p; it names its log files in the order it
\* creates them
CreateLog(p) ==
    /\ files[p] = NoFile
    /\ p = "output_log_2.txt" => files["output_log_1.txt"] # NoFile
    /\ \E tie \in BOOLEAN, k \in 0..Len(dirOrder) :
          /\ tie => CanTie([files EXCEPT ![p] = File(TRUE, "file", 0, <<>>)], p)
          /\ files' = Touched([files EXCEPT ![p] = File(TRUE, "file", 0, <<>>)], p, tie)
          /\ dirOrder' = SubSeq(dirOrder, 1, k) \o <<p>> \o SubSeq(dirOrder, k + 1, Len(dirOrder))
    /\ lastCycle' = NoCycle
    /\ UNCHANGED <<nvars, rvars, pvars, firstPath, firstDone, deliveries>>

\* the game appends one line to the log file p
AppendLine(p) ==
    /\ files[p].exists
    /\ TotalLines(files) < MaxLines
    /\ \E w \in WrittenLines, tie \in BOOLEAN :
          /\ tie => CanTie(files, p)
          /\ files' = Touched([files EXCEPT ![p].data = @ \o w], p, tie)
    /\ lastCycle' = NoCycle
    /\ UNCHANGED <<nvars, rvars, pvars, firstPath, firstDone, deliveries, dirOrder>>

\* the log file p is removed from the directory
RemoveLog(p) ==
    /\ files[p].exists
    /\ files' = Ranked([files EXCEPT ![p] = GoneFile])
    /\ dirOrder' = SelectSeq(dirOrder, LAMBDA q : q # p)
    /\ lastCycle' = NoCycle
    /\ UNCHANGED <<nvars, rvars, pvars, firstPath, firstDone, deliveries>>

\* VrChatLogProcessor::new over a directory without log files
Init ==
    /\ NotifierNew
    /\ files = EmptyDir
    /\ dirOrder = <<>>
    /\ reader = None
    /\ ReaderObsInit
    /\ LogObsInit
    /\ ParserObsInit

Next ==
    \/ main_loop
    \/ \E p \in LogPaths : CreateLog(p)
    \/ \E p \in LogPaths : AppendLine(p)
    \/ \E p \in LogPaths : RemoveLog(p)

Spec == Init /\ [][Next]_vars

\* the loop of main never stops turning, and the log directory and its files
\* are readable again and again: weak fairness of main_loop_ok, WF_vars(main_loop_ok),
\* with ENABLED <<main_loop_ok>>_vars written out as ~main_loop_idle
SpecLive == Spec /\ ([]<>main_loop_idle \/ []<><<main_loop_ok>>_vars)

-----------------------------------------------------------------------------
(* The log directory read for a consumer that keeps a tally of its lines *)

\* the lines of data that lie before byte offset n
LinesBefore(data, n) ==
    Cardinality({e \in 1..Len(data) : data[e] = LF /\ ByteLen(SubSeq(data, 1, e)) <= n})

\* counts, a number for each line of a file, after the callback of process_log
\* has been called with the lines that follow the first n of the file: every
\* line that LogLine::from_line accepts has gone to process_line once more
Delivered(counts, n, log_lines) ==
    LET last == IF Len(counts) < n + Len(log_lines) THEN n + Len(log_lines) ELSE Len(counts)
    IN  [i \in 1..last |->
            (IF i <= Len(counts) THEN counts[i] ELSE 0)
                + (IF i > n /\ i <= n + Len(log_lines) /\ log_lines[i - n] # None THEN 1 ELSE 0)]

\* process_log returns, leaving t behind: what the tally is then
Tally(t) ==
    IF t.log_lines = <<>> THEN deliveries
    ELSE
        LET path == t.lastCycle.selected[1]
        IN  [deliveries EXCEPT ![path] =
                Delivered(@, LinesBefore(files[path].data, t.lastCycle.from), t.log_lines)]

\* VrChatLogProcessor::process_log with a LogLineProcessor that keeps the tally
process_log_tally ==
    \E io \in CycleOutcomes : \E t \in Cycle(io) : Returns(t) /\ deliveries' = Tally(t)

\* one turn of the loop of main with that consumer
main_loop_tally == main_continues(lastCycle.result) /\ process_log_tally

NextTally ==
    \/ main_loop_tally
    \/ \E p \in LogPaths : CreateLog(p)
    \/ \E p \in LogPaths : AppendLine(p)
    \/ \E p \in LogPaths : RemoveLog(p)

SpecTally == Init /\ [][NextTally]_vars

-----------------------------------------------------------------------------
(* Claims about the notifier, under SpecNotifier *)

UserOf(line) == line.event[1].user_name

\* the title the notification of a player line is to carry
PlayerTitle(line) ==
    IF line.event[1].kind = "OnPlayerJoined" THEN UserOf(line) \o " joined."
    ELSE UserOf(line) \o " left."

\* C2: after a room transition line processed (is_first = false) at clock reading t,
\* with no later room transition, a player line processed (is_first = false as
\* well) at reading t' makes no send_message call when t' < t + 5 and exactly
\* one, titled "u joined." or "u left.", when t' >= t + 5.
C2_GraceWindow ==
    (lastCall.called /\ ~lastCall.is_first /\ IsPlayerEvent(lastCall.line) /\ roomAt # None) =>
        IF lastCall.now < roomAt[1] + 5
        THEN lastCall.sends = <<>>
        ELSE Len(lastCall.sends) = 1 /\ lastCall.sends[1].title = PlayerTitle(lastCall.line)

\* a player line at exactly t + 5 after a room transition at t, notified
C2_Witness ==
    /\ lastCall.called /\ ~lastCall.is_first /\ IsPlayerEvent(lastCall.line)
    /\ roomAt # None /\ lastCall.now = roomAt[1] + 5
    /\ Len(lastCall.sends) = 1

\* C3: a process_line call with is_first = true makes no send_message call, whatever
\* the event and whatever the suppression window.
C3_FirstReadSilent ==
    (lastCall.called /\ lastCall.is_first) => lastCall.sends = <<>>

\* a first-read player line arriving after a stored window has elapsed
C3_Witness ==
    /\ lastCall.called /\ lastCall.is_first /\ IsPlayerEvent(lastCall.line)
    /\ lastCall.before # None /\ lastCall.now >= lastCall.before[1]

\* C4: no notification is emitted for a player line whose user_name is the most
\* recently observed authenticated identity.
C4_SelfSilent ==
    (lastCall.called /\ IsPlayerEvent(lastCall.line) /\ selfName = Some(UserOf(lastCall.line))) =>
        lastCall.sends = <<>>

\* C5: the feed UserAuthenticated Alice, OnJoinedRoom, OnPlayerJoined Alice at one
\* clock reading and OnPlayerJoined Bob 6 s later makes exactly one send_message
\* call in total, titled "Bob joined.".
C5_EndToEnd ==
    (feed.on /\ feed.step = FeedLen) => feed.sent = <<"Bob joined.">>

\* the four lines of the feed have been processed
C5_Witness == feed.on /\ feed.step = FeedLen /\ lastCall.now = GracePeriod + 1

-----------------------------------------------------------------------------
(* Claims about ContinuousFileReader, under SpecReader *)

TrackedData == files[TrackedPath].data

\* the positions of the line feeds of data
LineEnds(data) == {i \in 1..Len(data) : data[i] = LF}

\* the start of the line that ends at position e
LineStart(data, e) ==
    IF \E j \in LineEnds(data) : j < e
    THEN 1 + CHOOSE j \in LineEnds(data) : j < e /\ \A k \in LineEnds(data) : k < e => k <= j
    ELSE 1

\* the end of the n-th newline-terminated line of data
NthLineEnd(data, n) ==
    CHOOSE e \in LineEnds(data) : Cardinality({j \in LineEnds(data) : j <= e}) = n

\* the text of the n-th newline-terminated line of data, without its terminator
NthLine(data, n) ==
    LET e == NthLineEnd(data, n) IN SubSeq(data, LineStart(data, e), e - 1)

\* text without its trailing whitespace
Trimmed(text) ==
    LET keep == {n \in 0..Len(text) : n = 0 \/ text[n] \notin Whitespace}
    IN  SubSeq(text, 1, CHOOSE n \in keep : \A m \in keep : m <= n)

\* the byte length of the first n lines of data, terminators included
LinesBytes(data, n) == IF n = 0 THEN 0 ELSE ByteLen(SubSeq(data, 1, NthLineEnd(data, n)))

C8_WholeLines ==
    (TrackedData = <<>> \/ TrackedData[Len(TrackedData)] = LF) =>
        /\ Len(delivered) <= Cardinality(LineEnds(TrackedData))
        /\ \A i \in 1..Len(delivered) : delivered[i] = Trimmed(NthLine(TrackedData, i))

-----------------------------------------------------------------------------
(* Claims about VrChatLogProcessor::process_log, under Spec *)

IsRoomEvent(event) == event # None /\ event[1].kind \in {"OnJoinedRoom", "OnLeftRoom"}

\* the file process_log selected in the cycle that has just returned
SelectedData == files[lastCycle.selected[1]].data

\* the events of the lines of data from the n-th on, m lines in all, that
\* LogLine::from_line accepts
RECURSIVE EventsOfLines(_, _, _)
EventsOfLines(data, n, m) ==
    IF m = 0 THEN <<>>
    ELSE
        LET log_line == from_line(Trimmed(NthLine(data, n)))
        IN  (IF log_line = None THEN <<>> ELSE <<log_line[1].event>>)
                \o EventsOfLines(data, n + 1, m - 1)

\* C1: the lines the consumer receives in the first batch that is read from the
\* first file process_log ever selected are delivered with is_first = true,
\* whatever happened in earlier cycles.
C1_FirstBatchIsFirst ==
    (lastCycle.called /\ lastCycle.firstBatch /\ lastCycle.events # <<>>) => lastCycle.is_first

\* C6: a process_log call that starts with a reader in place never delivers a line
\* with is_first = true and leaves a reader in place, so is_first stays false in
\* every later cycle; when the path selected differs from the reader's, the
\* reader is replaced by one for the selected path that reads from byte offset 0.
C6_RotationNotFirst ==
    (lastCycle.called /\ lastCycle.before # None) =>
        /\ reader # None
        /\ lastCycle.selected # None =>
              /\ ~lastCycle.is_first
              /\ reader[1].file_path = lastCycle.selected[1]
              /\ lastCycle.selected[1] # lastCycle.before[1].file_path =>
                    /\ lastCycle.from = 0
                    /\ reader[1].read_bytes = LinesBytes(SelectedData, lastCycle.ncallbacks)
                    /\ lastCycle.events = EventsOfLines(SelectedData, 1, lastCycle.ncallbacks)

\* a cycle that changes over to another file and delivers lines of it
C6_Witness ==
    /\ lastCycle.called /\ lastCycle.before # None /\ lastCycle.selected # None
    /\ lastCycle.selected[1] # lastCycle.before[1].file_path
    /\ lastCycle.before[1].read_bytes > 0
    /\ lastCycle.events # <<>>

\* C10: in a process_log call in which a send_message call fails, no line is sent
\* twice, every line read is passed to process_line in file order, failed line
\* and later lines included, notifiable_since is what the events of the lines
\* make it, and the reader's offset is past exactly the lines read.
C10_SendFailureHarmless ==
    (lastCycle.called /\ \E k \in 1..Len(lastCycle.sends) : lastCycle.sends[k].result # "Ok") =>
        /\ \A j, k \in 1..Len(lastCycle.sends) :
              j < k => lastCycle.sends[j].line < lastCycle.sends[k].line
        /\ lastCycle.events =
              EventsOfLines(SelectedData, LinesBefore(SelectedData, lastCycle.from) + 1,
                            lastCycle.ncallbacks)
        /\ notifiable_since =
              IF ~lastCycle.is_first /\ \E i \in 1..Len(lastCycle.events) : IsRoomEvent(lastCycle.events[i])
              THEN Some(clock + GracePeriod)
              ELSE lastCycle.nsBefore
        /\ reader[1].read_bytes =
              LinesBytes(SelectedData, LinesBefore(SelectedData, lastCycle.from) + lastCycle.ncallbacks)
        /\ lastCycle.result = "Ok" => reader[1].read_bytes = ByteLen(SelectedData)

\* the send for a line fails and a later line of the batch opens the window
C10_Witness ==
    /\ lastCycle.called
    /\ \E k \in 1..Len(lastCycle.sends) :
          /\ lastCycle.sends[k].result # "Ok"
          /\ lastCycle.sends[k].line < Len(lastCycle.events)
    /\ notifiable_since # lastCycle.nsBefore

\* the directory holds no regular file whose name matches ^output_log_.*\.txt$
NoLogFile ==
    \A p \in AllPaths : ~(files[p].exists /\ files[p].kind = "file" /\ IsLogFileName(p))

CaughtUp ==
    LET latest_log_path == find_latest_log_path(files, get_log_entries(files, dirOrder))
    IN  /\ latest_log_path # None
        /\ reader = Some(ContinuousFileReader(latest_log_path[1],
                                              ByteLen(files[latest_log_path[1]].data)))

\* C12: whatever process_log calls returned Err, the loop goes on calling it, and
\* if from some time on a matching file exists, then from some time on every
\* line of the latest one has been read and handed to the consumer.
C12_ErrRecovers == (<>[]~NoLogFile) => (<>[]CaughtUp)

\* the backlog of a file is read by a cycle that follows one failing to open it
C12_Witness ==
    /\ lastCycle.called /\ lastCycle.result = "Ok" /\ CaughtUp
    /\ lastCycle.firstBatch /\ ~lastCycle.is_first /\ lastCycle.events # <<>>

\* C13: a read_appended_lines call whose File::open or seek fails returns the
\* error, calls the callback not once and leaves read_bytes as it was; and
\* read_bytes changes in no step but a read_appended_lines call that read lines,
\* which moves it forward within the same file
C13_OffsetOwned ==
    /\ []((lastRead.called /\ lastRead.io \in {"OpenErr", "SeekErr"}) =>
              /\ lastRead.result = "Err"
              /\ lastRead.callbacks = <<>>
              /\ reader[1].read_bytes = lastRead.from)
    /\ [][reader' # reader =>
              /\ lastRead'.called /\ Len(lastRead'.callbacks) > 0
              /\ lastRead'.from = reader[1].read_bytes
              /\ reader'[1].file_path = reader[1].file_path
              /\ reader'[1].read_bytes > reader[1].read_bytes
              /\ reader'[1].read_bytes <= ByteLen(TrackedData)]_vars

\* a seek fails with lines waiting behind the stored offset
C13_Witness ==
    /\ lastRead.called /\ lastRead.io = "SeekErr"
    /\ lastRead.from > 0
    /\ ByteLen(TrackedData) > lastRead.from
    /\ LF \in {TrackedData[i] : i \in 1..Len(TrackedData)}

\* a regular file whose name matches ^output_log_.*\.txt$
IsLogFile(p) == files[p].exists /\ files[p].kind = "file" /\ IsLogFileName(p)

Tied ==
    \E p, q \in AllPaths :
        /\ p # q /\ IsLogFile(p) /\ IsLogFile(q)
        /\ files[p].mtime = files[q].mtime
        /\ \A x \in AllPaths : IsLogFile(x) => files[x].mtime <= files[p].mtime

IsUserName(name) ==
    /\ name # <<>>
    /\ name[1] \notin Whitespace \cup {USR}
    /\ name[Len(name)] \notin Whitespace \cup {USR}

\* C16: for every user name n, parse_body makes of "[Behaviour] OnPlayerJoined n"
\* and of "[Behaviour] OnPlayerJoined n (usr_<id>)" the event OnPlayerJoined with
\* user_name = n, without the identifier and without trailing whitespace, and
\* likewise of the two OnPlayerLeft bodies the event OnPlayerLeft
C16_SuffixStripped ==
    (parsed.called = "parse_body" /\ IsUserName(input.name)) =>
        /\ input.start = B_PLAYER_JOINED =>
              parsed.event = Some(OnPlayerJoined(Concat(input.name)))
        /\ input.start = B_PLAYER_LEFT =>
              parsed.event = Some(OnPlayerLeft(Concat(input.name)))

\* the line has a header, and from_line was called with it
HeaderParsed == parsed.called = "from_line" /\ input.head # <<>>

\* the body of the line matches none of the five event patterns: it starts with
\* a plain word, or with the beginning of a player pattern and nothing for .+?
\* to match, or with "User Authenticated: " and no non-space character after it
NoPattern(l) ==
    \/ l.start = "a"
    \/ l.start \in {B_PLAYER_JOINED, B_PLAYER_LEFT} /\ l.name = <<>> /\ ~l.usr
    \/ /\ l.start = B_AUTHENTICATED
       /\ IF l.name = <<>> THEN TRUE ELSE l.name[1] \in {SP, USR}

\* C17: from_line returns None for a line whose level token is none of Debug,
\* Log, Warning and Error; for a line with a timestamp that stands for a local
\* time, one of the four levels and a body that matches none of the five event
\* patterns it returns a LogLine of that level and body whose event is None
C17_LevelAndNoEvent ==
    HeaderParsed =>
        /\ input.head[3] \notin {"Debug", "Log", "Warning", "Error"} => parsed.log_line = None
        /\ (/\ input.head[3] \in {"Debug", "Log", "Warning", "Error"}
            /\ input.head[1] \in {TS, TS_FOLD}
            /\ NoPattern(input)) =>
                /\ parsed.log_line # None
                /\ parsed.log_line[1].event = None
                /\ parsed.log_line[1].log_level = input.head[3]
                /\ parsed.log_line[1].body = BodyOf(input)

\* a line with an unknown level that is a player-joined line in all else
C17_Witness ==
    /\ HeaderParsed /\ input.head[3] = "Exception" /\ input.head[1] = TS
    /\ input.start = B_PLAYER_JOINED /\ input.name = <<"Bob">> /\ input.usr
    /\ parsed.log_line = None

C18_OneTitledSend ==
    lastCall.called =>
        /\ Len(lastCall.sends) <= 1
        /\ ~IsPlayerEvent(lastCall.line) => lastCall.sends = <<>>
        /\ lastCall.sends # <<>> =>
              lastCall.sends[1].title =
                  IF lastCall.line.event[1].kind = "OnPlayerJoined"
                  THEN lastCall.line.event[1].user_name \o " joined."
                  ELSE lastCall.line.event[1].user_name \o " left."

\* a UserAuthenticated line processed, not on a first read, with the window elapsed
C18_Witness ==
    /\ lastCall.called /\ ~lastCall.is_first
    /\ lastCall.line.event = Some(UserAuthenticated("Alice"))
    /\ lastCall.before # None /\ lastCall.now >= lastCall.before[1]
    /\ lastCall.sends = <<>>

\* the lines that differ from line in timestamp, level or body only
LineVariants(line) ==
    {LogLine([local |-> ts, fold |-> 0], level, line.event, body) :
        ts \in {TS, TS_FOLD}, level \in LogLevels, body \in {<<>>, <<"a">>, <<B_JOINED_ROOM>>}}

\* C19: a process_line call given a line that differs from the one it was given
\* in timestamp, level or body only, with the same is_first, the same stored
\* notifiable_since, the same clock reading and the same send_message result,
\* makes the same send_message calls and leaves the same notifiable_since; so two
\* runs that differ in nothing else stay in step call after call
C19_OnlyEventFlagWindowClock ==
    lastCall.called =>
        \A l2 \in LineVariants(lastCall.line), result \in SendResults :
            LET r1 == process_line(lastCall.before, lastCall.now, lastCall.line,
                                   lastCall.is_first, result)
                r2 == process_line(lastCall.before, lastCall.now, l2, lastCall.is_first, result)
            IN  /\ r2 = r1
                /\ r1.notifiable_since = notifiable_since
                /\ Titles(r1.sends) = Titles(lastCall.sends)

\* a player line notified after a stored window has elapsed
C19_Witness ==
    /\ lastCall.called /\ ~lastCall.is_first /\ IsPlayerEvent(lastCall.line)
    /\ lastCall.before # None /\ lastCall.now = lastCall.before[1]
    /\ Len(lastCall.sends) = 1 /\ lastCall.sends[1].result = "SendError"

-----------------------------------------------------------------------------
(* Claims about the lines a consumer receives over many cycles, under SpecTally *)

\* C21: across any sequence of process_log calls, the changes back and forth of
\* the file with the latest modification time included, no line of any log file
\* is given to the consumer more than once.
C21_NoLineTwice ==
    \A p \in LogPaths : \A i \in 1..Len(deliveries[p]) : deliveries[p][i] <= 1

-----------------------------------------------------------------------------
(* Claims about what process_line does to notifiable_since, under SpecNotifier *)

\* C22: a process_line call with is_first = true leaves notifiable_since as it
\* was, whatever the event of the line, OnJoinedRoom and OnLeftRoom included; a
\* call with is_first = false and an OnJoinedRoom or OnLeftRoom line sets it to
\* the clock reading plus 5 seconds whatever it was before; and no call makes a
\* notifiable_since that was set None again.
C22_WindowFrame ==
    lastCall.called =>
        /\ lastCall.is_first => notifiable_since = lastCall.before
        /\ (~lastCall.is_first /\ IsRoomTransition(lastCall.line)) =>
              notifiable_since = Some(lastCall.now + GracePeriod)
        /\ lastCall.before # None => notifiable_since # None

\* a room transition that arrives while an earlier window is still open, and
\* replaces it
C22_Witness ==
    /\ lastCall.called /\ ~lastCall.is_first /\ IsRoomTransition(lastCall.line)
    /\ lastCall.before # None /\ lastCall.now < lastCall.before[1]
    /\ lastCall.before # notifiable_since

====
